---- MODULE Spec2Model ----
(***************************************************************************)
(* Model of scripts/gmail.py (GmailConnector): the credential lifecycle    *)
(* of __init__ / _get_gmail_service, the token file shared between runs,   *)
(* the MIME construction of send_message, the remote calls of the other    *)
(* operations, get_message_body, and one run of __main__.                  *)
(***************************************************************************)
EXTENDS Integers, Sequences, FiniteSets, TLC

VARIABLES
    now,          \* wall clock
    tokenFile,    \* token.pickle: [exists, data]
    credFile,     \* state of credentials.json
    pc,           \* position of the run inside __init__ / _get_gmail_service
    creds,        \* local variable creds of _get_gmail_service
    clientConfig, \* local variable client_config_for_flow
    outcome,      \* how the current GmailConnector(...) call ended
    service,      \* credentials the built service holds (self.service)
    loadStatus,   \* what lines 165-177 found in the token file
    loaded,       \* the object pickle.load returned
    checkTime,    \* clock value when line 180 was evaluated
    refreshState, \* creds.refresh of line 183: "no", "ok", "fail"
    flowState,    \* OAuth flow of 206-210: "no", "waiting", "ok", "fail"
    flowEntered,  \* the branch of line 189 was taken
    saved,        \* the token file was opened for writing (213)
    obtainNo,     \* number of GmailConnector(...) constructions so far
    nextTok,      \* next access token the token endpoint hands out
    prev,         \* summary of the previous construction in this process
    \* two runs racing on the token file
    oldFile,      \* the token file before the writer run started
    wbuf,         \* the pickle stream the writer run is saving
    wpc,          \* writer run: "idle", "open", "closed", "crashed"
    wpos,         \* bytes of wbuf that reached the file
    rpc,          \* reader run: "idle", "open", "done"
    robs,         \* what the reader's load read: [exists, data]
    rcreds,       \* creds of the reader run after lines 165-177
    \* send_message
    msg,          \* arguments of the last send_message call
    mime,         \* the MIME message it built
    sendResult,   \* "none", "sent", "http_error", "encode_error"
    sendCalls,    \* messages().send(...).execute() calls of the last call
    \* the other operations of the connector
    op,           \* the operation called: "none", "profile", "list", ...
    orig,         \* the message the remote get returns to reply / forward
    listing,      \* the ids the remote list returns to get_messages
    calls,        \* remote calls the operation executed, in order
    opResult,     \* "none", "returned", "http_error", "error"
    returned,     \* what the operation returned to its caller
    reply,        \* the message reply_to_message / forward_message built
    \* get_message_body
    inbound,      \* the message dict passed to get_message_body
    bodyStatus,   \* "none", "returned", "raised"
    bodyText      \* the string it returned

authVars == <<now, tokenFile, credFile, pc, creds, clientConfig, outcome,
              service, loadStatus, loaded, checkTime, refreshState,
              flowState, flowEntered, saved, obtainNo, nextTok, prev>>

raceVars == <<oldFile, wbuf, wpc, wpos, rpc, robs, rcreds>>

sendVars == <<msg, mime, sendResult, sendCalls>>

facadeVars == <<op, orig, listing, calls, opResult, returned, reply>>

decodeVars == <<inbound, bodyStatus, bodyText>>

\* ---------------------------------------------------------------- bounds
MaxTime == 3
MaxObtains == 2
MaxExpiry == 2
TokenTTL == 2

\* ------------------------------------------------------- python objects
\* An unpickled object: kind "creds" is google.oauth2 Credentials; "nofields"
\* is an object without the four attributes line 171 asks for; "legacy" is an
\* object that has those four attributes but no valid/expired properties;
\* "None" is Python None.
Obj(k, t, e, r) == [kind |-> k, token |-> t, expiry |-> e, refresh_token |-> r]
None == Obj("None", 0, 0, 0)
NoFields == Obj("nofields", 0, 0, 0)
Legacy == Obj("legacy", 0, 0, 1)
Kinds == {"None", "nofields", "legacy", "creds"}

\* bool(creds) as used by `if creds`, `not creds`
Truthy(c) == c.kind # "None"

\* all(hasattr(creds, field) for field in required_fields), line 172
HasRequiredFields(c) == c.kind \in {"creds", "legacy"}

\* the object has the valid / expired properties read in 180-181
HasCredentialApi(c) == c.kind = "creds"

\* creds.expired : expiry set and reached
Expired(c, t) == c.expiry # 0 /\ t >= c.expiry

\* creds.valid : a token is present and it is not expired
Valid(c, t) == c.token # 0 /\ ~Expired(c, t)

\* -------------------------------------------------------------- pickle
\* pickle.dump: a header opcode, the object's state, a STOP opcode.
Dump(c) == <<"PROTO", c.kind, c.token, c.expiry, c.refresh_token, "STOP">>

\* pickle.load succeeds only on a complete, well-formed stream
WellFormed(b) ==
    /\ Len(b) = 6
    /\ b[1] = "PROTO"
    /\ b[6] = "STOP"
    /\ b[2] \in Kinds

Load(b) == Obj(b[2], b[3], b[4], b[5])

Prefix(b, n) == SubSeq(b, 1, n)

AbsentFile == [exists |-> FALSE, data |-> <<>>]
FileOf(b) == [exists |-> TRUE, data |-> b]

\* ---------------------------------------------------- sampled inputs
StoredCreds ==
    {Obj("creds", t, e, r) : t \in {0, 1}, e \in 0..MaxExpiry, r \in {0, 1}}

StoredObjects == StoredCreds \cup {None, NoFields, Legacy}

InitialTokenFiles ==
    {AbsentFile, FileOf(<<>>), FileOf(Prefix(Dump(Obj("creds", 1, 2, 1)), 3))}
    \cup {FileOf(Dump(o)) : o \in StoredObjects}

CredFileKinds == {"missing", "unreadable", "other", "incomplete", "valid"}

NoConfig == [keys |-> FALSE, client_id |-> "", client_secret |-> ""]
Config(i, s) == [keys |-> TRUE, client_id |-> i, client_secret |-> s]

NoPrev == [outcome |-> "none", flow |-> "no", loadStatus |-> "none",
           creds |-> None]

\* ------------------------------------------------------------------ Init
InitAuth ==
    /\ now = 0
    /\ tokenFile \in InitialTokenFiles
    /\ credFile \in CredFileKinds
    /\ pc = "idle"
    /\ creds = None
    /\ clientConfig = NoConfig
    /\ outcome = "none"
    /\ service = None
    /\ loadStatus = "none"
    /\ loaded = None
    /\ checkTime = 0
    /\ refreshState = "no"
    /\ flowState = "no"
    /\ flowEntered = FALSE
    /\ saved = FALSE
    /\ obtainNo = 0
    /\ nextTok = 2
    /\ prev = NoPrev

\* ------------------------------------------------ conditions of the code
\* lines 165-177: what _get_gmail_service holds in creds after the load
LoadStatusOf(f) ==
    IF ~f.exists THEN "absent"
    ELSE IF ~WellFormed(f.data) THEN "error"
    ELSE IF Truthy(Load(f.data)) /\ ~HasRequiredFields(Load(f.data))
         THEN "missing_fields"
    ELSE "object"

LoadCreds(f) == IF LoadStatusOf(f) = "object" THEN Load(f.data) ELSE None

\* line 180: if not creds or not creds.valid
NeedsNewCreds(c, t) == ~Truthy(c) \/ ~Valid(c, t)

\* line 181: if creds and creds.expired and creds.refresh_token
ShouldRefresh(c, t) == Truthy(c) /\ Expired(c, t) /\ c.refresh_token # 0

\* line 189: if not creds
NeedsFlow(c) == ~Truthy(c)

\* variant: the test of line 180 is skipped, a refresh token alone triggers
\* the refresh
RouteAlwaysRefresh(c, t) ==
    IF Truthy(c) /\ c.refresh_token # 0 THEN "refresh"
    ELSE IF NeedsFlow(c) THEN "config"
    ELSE "build"

\* lines 180-189: where the run goes once creds is loaded
Route(c, t) ==
    IF ~NeedsNewCreds(c, t) THEN "build"
    ELSE IF ShouldRefresh(c, t) THEN "refresh"
    ELSE IF NeedsFlow(c) THEN "config"
    ELSE "build"

\* line 183: a successful creds.refresh replaces token and expiry in place
Refreshed(c, tok, t) == [c EXCEPT !.token = tok, !.expiry = t + TokenTTL]

\* variant: the handler logs the failure and keeps the stale credential
AfterRefreshFailureKeeps(c) == c

\* lines 184-186: the handler of a failed refresh
AfterRefreshFailure(c) == None

\* lines 225-237: the config built from the two prompted strings
PromptConfig(i, s) == Config(i, s)

\* lines 192-197: the config read from credentials.json
FileConfig(k) == IF k = "valid" THEN Config("cid", "sec") ELSE NoConfig

\* line 207: from_client_config rejects a config without the required keys
FlowAccepts(cfg) == cfg.keys

\* the credential run_local_server returns after a successful exchange
Fresh(tok, t, r) == Obj("creds", tok, t + TokenTTL, r)

\* variant: the file is opened for writing but the dump is left out
SavedFileEmpty(c) == FileOf(<<>>)

\* lines 213-214: the token file after a completed save
SavedFile(c) == FileOf(Dump(c))

\* a config the authorization server can work with
Usable(cfg) == cfg.keys /\ cfg.client_id # "" /\ cfg.client_secret # ""

\* the parts of the state a specification does not exercise
RaceIdle ==
    /\ oldFile = AbsentFile
    /\ wbuf = <<>>
    /\ wpc = "idle"
    /\ wpos = 0
    /\ rpc = "idle"
    /\ robs = AbsentFile
    /\ rcreds = None

NoMessage == [to |-> "", subject |-> "", body |-> "", cc |-> "None",
              bcc |-> "None", html_body |-> "None", attachments |-> <<>>]
NoMime == [headers |-> <<>>, root |-> <<>>]

SendIdle ==
    /\ msg = NoMessage
    /\ mime = NoMime
    /\ sendResult = "none"
    /\ sendCalls = 0

NoOriginal == [payload |-> "absent", decodable |-> FALSE, hasBody |-> FALSE,
               headers |-> <<>>]
NoOp == [name |-> "none", id |-> "", format |-> "", include_body |-> FALSE,
         html_body |-> "None", to |-> <<>>]
NoReply == [to |-> <<>>, subject |-> <<>>, in_reply_to |-> <<>>,
            references |-> <<>>, ctype |-> "", parts |-> <<>>]

FacadeIdle ==
    /\ op = NoOp
    /\ orig = NoOriginal
    /\ listing = <<>>
    /\ calls = <<>>
    /\ opResult = "none"
    /\ returned = <<>>
    /\ reply = NoReply

NoInbound == [payload |-> "absent", hasParts |-> FALSE, parts |-> <<>>,
              mimeType |-> "absent", body |-> "absent", text |-> <<>>,
              utf8 |-> TRUE]

DecodeIdle ==
    /\ inbound = NoInbound
    /\ bodyStatus = "none"
    /\ bodyText = <<>>

\* ---------------------------------------------------------------- actions
Ended(o) ==
    /\ pc' = "done"
    /\ outcome' = o

\* __init__, lines 132-148
Construct ==
    /\ pc \in {"idle", "done"}
    /\ obtainNo < MaxObtains
    /\ obtainNo' = obtainNo + 1
    /\ prev' = [outcome |-> outcome, flow |-> flowState,
                loadStatus |-> loadStatus, creds |-> service]
    /\ creds' = None
    /\ clientConfig' = NoConfig
    /\ service' = None
    /\ loadStatus' = "none"
    /\ loaded' = None
    /\ checkTime' = 0
    /\ refreshState' = "no"
    /\ flowState' = "no"
    /\ flowEntered' = FALSE
    /\ saved' = FALSE
    /\ IF credFile = "missing"
       THEN Ended("config_error")
       ELSE pc' = "load" /\ outcome' = "none"
    /\ UNCHANGED <<raceVars, sendVars, facadeVars, decodeVars>>
    /\ UNCHANGED <<now, tokenFile, credFile, nextTok>>

\* _get_gmail_service, lines 162-177
LoadToken ==
    /\ pc = "load"
    /\ loadStatus' = LoadStatusOf(tokenFile)
    /\ loaded' = IF tokenFile.exists /\ WellFormed(tokenFile.data)
                 THEN Load(tokenFile.data) ELSE None
    /\ creds' = LoadCreds(tokenFile)
    /\ pc' = "check"
    /\ UNCHANGED <<raceVars, sendVars, facadeVars, decodeVars>>
    /\ UNCHANGED <<now, tokenFile, credFile, clientConfig, outcome, service,
                   checkTime, refreshState, flowState, flowEntered, saved,
                   obtainNo, nextTok, prev>>

\* lines 180-181 and 189: the tests that route the run
CheckCreds ==
    /\ pc = "check"
    /\ checkTime' = now
    /\ IF Truthy(creds) /\ ~HasCredentialApi(creds)
       THEN Ended("attr_error") /\ UNCHANGED flowEntered
       ELSE /\ outcome' = outcome
            /\ pc' = Route(creds, now)
            /\ flowEntered' = (Route(creds, now) = "config")
    /\ UNCHANGED <<raceVars, sendVars, facadeVars, decodeVars>>
    /\ UNCHANGED <<now, tokenFile, credFile, creds, clientConfig, service,
                   loadStatus, loaded, refreshState, flowState, saved,
                   obtainNo, nextTok, prev>>

\* lines 182-186 and 189: creds.refresh(Request()) and its handler
Refresh ==
    /\ pc = "refresh"
    /\ \E ok \in BOOLEAN :
         LET c == IF ok THEN Refreshed(creds, nextTok, now)
                  ELSE AfterRefreshFailure(creds)
         IN /\ creds' = c
            /\ refreshState' = IF ok THEN "ok" ELSE "fail"
            /\ nextTok' = IF ok THEN nextTok + 1 ELSE nextTok
            /\ IF NeedsFlow(c)
               THEN pc' = "config" /\ flowEntered' = TRUE
               ELSE pc' = "build" /\ UNCHANGED flowEntered
    /\ UNCHANGED <<raceVars, sendVars, facadeVars, decodeVars>>
    /\ UNCHANGED <<now, tokenFile, credFile, clientConfig, outcome, service,
                   loadStatus, loaded, checkTime, flowState, saved,
                   obtainNo, prev>>

\* lines 190-204: read credentials.json, or prompt
LoadClientConfig ==
    /\ pc = "config"
    /\ \/ /\ credFile \in {"valid", "incomplete"}
          /\ clientConfig' = FileConfig(credFile)
          /\ pc' = "flow" /\ outcome' = outcome
       \/ /\ credFile \in {"other", "unreadable", "missing"}
          /\ \E i \in {"", "cid"}, s \in {"", "sec"} :
                clientConfig' = PromptConfig(i, s)
          /\ pc' = "flow" /\ outcome' = outcome
       \/ /\ credFile \in {"other", "unreadable", "missing"}
          /\ clientConfig' = clientConfig
          /\ Ended("prompt_error")
    /\ UNCHANGED <<raceVars, sendVars, facadeVars, decodeVars>>
    /\ UNCHANGED <<now, tokenFile, credFile, creds, service, loadStatus,
                   loaded, checkTime, refreshState, flowState, flowEntered,
                   saved, obtainNo, nextTok, prev>>

\* lines 206-210: from_client_config, then run_local_server starts listening
StartFlow ==
    /\ pc = "flow"
    /\ \E portFree \in BOOLEAN :
         IF FlowAccepts(clientConfig) /\ portFree
         THEN flowState' = "waiting" /\ pc' = "wait" /\ outcome' = outcome
         ELSE flowState' = "rejected" /\ Ended("auth_failed")
    /\ UNCHANGED <<raceVars, sendVars, facadeVars, decodeVars>>
    /\ UNCHANGED <<now, tokenFile, credFile, creds, clientConfig, service,
                   loadStatus, loaded, checkTime, refreshState, flowEntered,
                   saved, obtainNo, nextTok, prev>>

\* line 210: the user consents and the code is exchanged for a credential
ConsentGranted ==
    /\ pc = "wait"
    /\ Usable(clientConfig)
    /\ \E r \in {0, 1} : creds' = Fresh(nextTok, now, r)
    /\ nextTok' = nextTok + 1
    /\ flowState' = "ok"
    /\ pc' = "save"
    /\ UNCHANGED <<raceVars, sendVars, facadeVars, decodeVars>>
    /\ UNCHANGED <<now, tokenFile, credFile, clientConfig, outcome, service,
                   loadStatus, loaded, checkTime, refreshState, flowEntered,
                   saved, obtainNo, prev>>

\* lines 210, 216-217: consent denied or the exchange rejected
FlowFails ==
    /\ pc = "wait"
    /\ flowState' = "fail"
    /\ Ended("auth_failed")
    /\ UNCHANGED <<raceVars, sendVars, facadeVars, decodeVars>>
    /\ UNCHANGED <<now, tokenFile, credFile, creds, clientConfig, service,
                   loadStatus, loaded, checkTime, refreshState, flowEntered,
                   saved, obtainNo, nextTok, prev>>

\* lines 213-217: open(token_file, 'wb') truncates, pickle.dump writes
SaveToken ==
    /\ pc = "save"
    /\ \/ /\ tokenFile' = SavedFile(creds)
          /\ saved' = TRUE
          /\ pc' = "build" /\ outcome' = outcome
       \/ /\ UNCHANGED tokenFile
          /\ saved' = FALSE
          /\ Ended("auth_failed")
       \/ /\ \E n \in 0..(Len(Dump(creds)) - 1) :
                tokenFile' = FileOf(Prefix(Dump(creds), n))
          /\ saved' = TRUE
          /\ Ended("auth_failed")
    /\ UNCHANGED <<raceVars, sendVars, facadeVars, decodeVars>>
    /\ UNCHANGED <<now, credFile, creds, clientConfig, service, loadStatus,
                   loaded, checkTime, refreshState, flowState, flowEntered,
                   obtainNo, nextTok, prev>>

\* lines 220-223: build('gmail', 'v1', credentials=creds)
Build ==
    /\ pc = "build"
    /\ \/ service' = creds /\ Ended("ok")
       \/ service' = service /\ Ended("build_failed")
    /\ UNCHANGED <<raceVars, sendVars, facadeVars, decodeVars>>
    /\ UNCHANGED <<now, tokenFile, credFile, creds, clientConfig, loadStatus,
                   loaded, checkTime, refreshState, flowState, flowEntered,
                   saved, obtainNo, nextTok, prev>>

\* time passes
Tick ==
    /\ now < MaxTime
    /\ now' = now + 1
    /\ UNCHANGED <<raceVars, sendVars, facadeVars, decodeVars>>
    /\ UNCHANGED <<tokenFile, credFile, pc, creds, clientConfig, outcome,
                   service, loadStatus, loaded, checkTime, refreshState,
                   flowState, flowEntered, saved, obtainNo, nextTok, prev>>

vars == <<authVars, raceVars, sendVars, facadeVars, decodeVars>>

Init == InitAuth /\ RaceIdle /\ SendIdle /\ FacadeIdle /\ DecodeIdle

Next ==
    \/ Construct
    \/ LoadToken
    \/ CheckCreds
    \/ Refresh
    \/ LoadClientConfig
    \/ StartFlow
    \/ ConsentGranted
    \/ FlowFails
    \/ SaveToken
    \/ Build
    \/ Tick

Spec == Init /\ [][Next]_vars

TypeOK ==
    /\ now \in 0..MaxTime
    /\ pc \in {"idle", "load", "check", "refresh", "config", "flow", "wait",
               "save", "build", "done"}
    /\ outcome \in {"none", "ok", "config_error", "attr_error",
                    "prompt_error", "auth_failed", "build_failed"}

\* ------------------------------------------------------- claims, obtain
\* the run is past the tests of lines 180-189
PastCheck == loadStatus # "none" /\ pc \notin {"load", "check"}

\* the load produced a google Credentials object
LoadedCredential == loadStatus = "object" /\ HasCredentialApi(loaded)

\* C1: a stored credential that is expired and has no refresh token makes
\* obtain run the interactive flow, and obtain never succeeds with the
\* stored, unusable credential in the service.
C1_UnusableRunsFlow ==
    (PastCheck /\ LoadedCredential /\ Expired(loaded, checkTime)
        /\ loaded.refresh_token = 0)
    => (flowEntered /\ (outcome = "ok" => service # loaded))

\* C2: after a successful silent refresh, the token file holds the
\* credential obtain returned.
C2_RefreshPersisted ==
    (refreshState = "ok" /\ outcome = "ok")
    => (tokenFile.exists /\ WellFormed(tokenFile.data)
        /\ Load(tokenFile.data) = service)

\* C4: a stored credential that is valid when checked is returned unchanged,
\* with no refresh, no interactive flow and no write to the token file.
C4_ValidFastPath ==
    (PastCheck /\ LoadedCredential /\ Valid(loaded, checkTime))
    => /\ pc \in {"build", "done"}
       /\ refreshState = "no"
       /\ flowState = "no"
       /\ ~flowEntered
       /\ ~saved
       /\ creds = loaded
       /\ tokenFile = FileOf(Dump(loaded))
       /\ outcome \in {"none", "ok", "build_failed"}
       /\ (outcome = "ok" => service = loaded)

C4_Witness ==
    /\ LoadedCredential
    /\ Valid(loaded, checkTime)
    /\ outcome = "ok"
    /\ service = loaded

\* C5: a failed silent refresh falls through to the interactive flow; the
\* failure of obtain's credential stage then comes from that flow only, and
\* a success carries the credential the flow produced.
C5_RefreshFailureFallsThrough ==
    refreshState = "fail"
    => /\ flowEntered
       /\ pc \notin {"refresh", "check", "load"}
       /\ (pc = "build" => flowState = "ok")
       /\ (outcome = "ok" => flowState = "ok" /\ service # loaded)
       /\ (outcome = "auth_failed" => flowState \in {"rejected", "fail", "ok"})
       /\ outcome \in {"none", "ok", "auth_failed", "prompt_error",
                       "build_failed"}

C5_Witness ==
    /\ refreshState = "fail"
    /\ flowState = "ok"
    /\ outcome = "ok"

\* C6: whatever the token file holds that is not a credential (corrupt,
\* truncated, wrong object type, missing fields), the load raises nothing
\* and obtain goes on to authorization.
StoreNotCredential ==
    \/ loadStatus \in {"absent", "error", "missing_fields"}
    \/ loadStatus = "object" /\ ~HasCredentialApi(loaded)

C6_LoadFailsSoft ==
    (PastCheck /\ StoreNotCredential)
    => (outcome # "attr_error" /\ flowEntered)

\* C7: an obtain that ran the interactive flow and succeeded has persisted
\* its credential, and the next obtain of the process, while that token is
\* valid, returns the same credential without a new flow.
C7_SecondObtainReuses ==
    /\ (outcome = "ok" /\ flowState = "ok") => tokenFile = FileOf(Dump(service))
    /\ (PastCheck /\ prev.outcome = "ok" /\ prev.flow = "ok"
            /\ Valid(prev.creds, checkTime))
       => /\ loadStatus = "object"
          /\ loaded = prev.creds
          /\ creds = prev.creds
          /\ ~flowEntered
          /\ flowState = "no"
          /\ (outcome = "ok" => service = prev.creds)

C7_Witness ==
    /\ obtainNo = 2
    /\ credFile = "valid"
    /\ prev.loadStatus = "absent"
    /\ prev.flow = "ok"
    /\ prev.outcome = "ok"
    /\ outcome = "ok"
    /\ flowState = "no"
    /\ service = prev.creds

\* C8: without a usable client config (file missing, unreadable or in
\* another format, and nothing usable from the prompt) no authorization
\* flow is started and obtain ends in an error.
C8_NoConfigNoNetwork ==
    /\ (credFile = "missing" /\ pc # "idle")
       => (pc = "done" /\ outcome = "config_error" /\ flowState = "no")
    /\ (flowEntered /\ pc # "config" /\ ~Usable(clientConfig))
       => /\ flowState \in {"no", "rejected"}
          /\ pc \in {"flow", "done"}
          /\ (pc = "done" => outcome \in {"auth_failed", "prompt_error"})

\* ------------------------------------------- two runs on one token file
\* One run saves a credential (lines 213-215) while another run loads the
\* token file (lines 165-177).
NewCreds == {Obj("creds", 2, e, r) : e \in 1..MaxExpiry, r \in {0, 1}}

OldTokenFiles == {AbsentFile} \cup {FileOf(Dump(o)) : o \in StoredCreds}

ConnectorIdle ==
    /\ now = 0
    /\ credFile = "valid"
    /\ pc = "idle"
    /\ creds = None
    /\ clientConfig = NoConfig
    /\ outcome = "none"
    /\ service = None
    /\ loadStatus = "none"
    /\ loaded = None
    /\ checkTime = 0
    /\ refreshState = "no"
    /\ flowState = "no"
    /\ flowEntered = FALSE
    /\ saved = FALSE
    /\ obtainNo = 0
    /\ nextTok = 2
    /\ prev = NoPrev

InitRace ==
    /\ ConnectorIdle
    /\ SendIdle
    /\ FacadeIdle
    /\ DecodeIdle
    /\ tokenFile \in OldTokenFiles
    /\ oldFile = tokenFile
    /\ wbuf \in {Dump(c) : c \in NewCreds}
    /\ wpc = "idle"
    /\ wpos = 0
    /\ rpc = "idle"
    /\ robs = AbsentFile
    /\ rcreds = None

\* line 213: open(self.token_file, 'wb') creates or truncates the file
OpenForWrite(f) == FileOf(<<>>)

WriterOpen ==
    /\ wpc = "idle"
    /\ tokenFile' = OpenForWrite(tokenFile)
    /\ wpc' = "open"
    /\ UNCHANGED <<oldFile, wbuf, wpos, rpc, robs, rcreds>>
    /\ UNCHANGED <<now, credFile, pc, creds, clientConfig, outcome, service,
                   loadStatus, loaded, checkTime, refreshState, flowState,
                   flowEntered, saved, obtainNo, nextTok, prev, sendVars,
                   facadeVars, decodeVars>>

\* line 214: pickle.dump(creds, token); the bytes reach the file in one or
\* more writes
WriterWrite ==
    /\ wpc = "open"
    /\ wpos < Len(wbuf)
    /\ \E n \in (wpos + 1)..Len(wbuf) :
         /\ tokenFile' = FileOf(Prefix(wbuf, n))
         /\ wpos' = n
    /\ UNCHANGED <<oldFile, wbuf, wpc, rpc, robs, rcreds>>
    /\ UNCHANGED <<now, credFile, pc, creds, clientConfig, outcome, service,
                   loadStatus, loaded, checkTime, refreshState, flowState,
                   flowEntered, saved, obtainNo, nextTok, prev, sendVars,
                   facadeVars, decodeVars>>

\* line 213: the with block closes the file
WriterClose ==
    /\ wpc = "open"
    /\ wpos = Len(wbuf)
    /\ wpc' = "closed"
    /\ UNCHANGED <<tokenFile, oldFile, wbuf, wpos, rpc, robs, rcreds>>
    /\ UNCHANGED <<now, credFile, pc, creds, clientConfig, outcome, service,
                   loadStatus, loaded, checkTime, refreshState, flowState,
                   flowEntered, saved, obtainNo, nextTok, prev, sendVars,
                   facadeVars, decodeVars>>

\* the writing run is killed between open and close
WriterCrash ==
    /\ wpc = "open"
    /\ wpc' = "crashed"
    /\ UNCHANGED <<tokenFile, oldFile, wbuf, wpos, rpc, robs, rcreds>>
    /\ UNCHANGED <<now, credFile, pc, creds, clientConfig, outcome, service,
                   loadStatus, loaded, checkTime, refreshState, flowState,
                   flowEntered, saved, obtainNo, nextTok, prev, sendVars,
                   facadeVars, decodeVars>>

\* line 165: os.path.exists(self.token_file)
ReaderExists ==
    /\ rpc = "idle"
    /\ IF tokenFile.exists
       THEN rpc' = "open" /\ UNCHANGED robs
       ELSE rpc' = "done" /\ robs' = AbsentFile
    /\ UNCHANGED <<tokenFile, oldFile, wbuf, wpc, wpos, rcreds>>
    /\ UNCHANGED <<now, credFile, pc, creds, clientConfig, outcome, service,
                   loadStatus, loaded, checkTime, refreshState, flowState,
                   flowEntered, saved, obtainNo, nextTok, prev, sendVars,
                   facadeVars, decodeVars>>

\* lines 166-177: open, pickle.load, field check, handler
ReaderLoad ==
    /\ rpc = "open"
    /\ robs' = tokenFile
    /\ rcreds' = LoadCreds(tokenFile)
    /\ rpc' = "done"
    /\ UNCHANGED <<tokenFile, oldFile, wbuf, wpc, wpos>>
    /\ UNCHANGED <<now, credFile, pc, creds, clientConfig, outcome, service,
                   loadStatus, loaded, checkTime, refreshState, flowState,
                   flowEntered, saved, obtainNo, nextTok, prev, sendVars,
                   facadeVars, decodeVars>>

NextRace ==
    \/ WriterOpen
    \/ WriterWrite
    \/ WriterClose
    \/ WriterCrash
    \/ ReaderExists
    \/ ReaderLoad

SpecRace == InitRace /\ [][NextRace]_vars

\* C3: whatever the interleaving, and also when the writer crashes, a load
\* sees the complete old contents or the complete new contents of the
\* token file.
C3_NoTornRead ==
    rpc = "done" => (robs = oldFile \/ robs = FileOf(wbuf))

\* --------------------------------------------------- obtain, with fairness
\* lines 192-197: credentials.json holds 'web' or 'installed', the config
\* is taken from the file and input() is not called
ConfigFromFile ==
    /\ credFile \in {"valid", "incomplete"}
    /\ LoadClientConfig

\* The steps a construction takes by itself once it was called: every call
\* of the code that does not wait for the user returns, and time passes.
\* Calling GmailConnector(...) is the caller's choice; the answers to the
\* prompts of lines 227-228, the user's consent and the failure of the flow
\* are the environment's.  None of these carries fairness.
RunStep ==
    \/ LoadToken
    \/ CheckCreds
    \/ Refresh
    \/ ConfigFromFile
    \/ StartFlow
    \/ SaveToken
    \/ Build

SpecFair == Init /\ [][Next]_vars /\ WF_vars(RunStep) /\ WF_vars(Tick)

\* C9: an obtain waiting for consent always ends, by consent or by an
\* authorization-timeout error.
C9_FlowTerminates == (pc = "wait") ~> (pc = "done")

\* ------------------------------------------------------------ send_message
MaxAttachments == 2

\* attachment paths: components, extension, and what the file system holds
File(p, x, f, r) == [path |-> p, ext |-> x, isfile |-> f, readable |-> r]

Paths ==
    { File(<<"home", "docs", "report.pdf">>, "pdf", TRUE, TRUE),
      File(<<"tmp", "backup.tar.gz">>, "gz", TRUE, TRUE),
      File(<<"tmp", "gone.txt">>, "txt", FALSE, FALSE),
      File(<<"etc", "locked.bin">>, "bin", TRUE, FALSE),
      File(<<"src", "Makefile">>, "", TRUE, TRUE) }

RECURSIVE SeqsUpTo(_, _)
SeqsUpTo(S, n) ==
    IF n = 0 THEN {<<>>}
    ELSE SeqsUpTo(S, n - 1)
         \cup {Append(q, x) : q \in {r \in SeqsUpTo(S, n - 1) : Len(r) = n - 1},
                              x \in S}

HtmlBodies == {"None", "", "<h1>Hello</h1>"}
OptionalAddrs == {"None", "", "c@example.com"}

\* truth value of an Optional[str] argument
StrTruthy(x) == x \notin {"None", ""}

\* mimetypes.guess_type, line 372: <<type, encoding>>
GuessType(x) ==
    IF x = "pdf" THEN <<"application/pdf", "None">>
    ELSE IF x = "txt" THEN <<"text/plain", "None">>
    ELSE IF x = "gz" THEN <<"application/x-tar", "gzip">>
    ELSE IF x = "bin" THEN <<"application/octet-stream", "None">>
    ELSE <<"None", "None">>

\* lines 372-375
ContentType(x) ==
    IF GuessType(x)[1] = "None" \/ GuessType(x)[2] # "None"
    THEN "application/octet-stream"
    ELSE GuessType(x)[1]

\* os.path.basename, line 385
Basename(p) == p[Len(p)]

Part(ct, disp, fn, ch) ==
    [ctype |-> ct, disposition |-> disp, filename |-> fn, parts |-> ch]

\* MIMEText(body, 'plain'), MIMEText(html_body, 'html')
PlainPart == Part("text/plain", "", "", <<>>)
HtmlPart == Part("text/html", "", "", <<>>)

\* lines 377-385
AttachmentPart(a) ==
    Part(ContentType(a.ext), "attachment", Basename(a.path), <<>>)

\* lines 368-386: one part per path that is a file, in order
RECURSIVE AttachmentParts(_)
AttachmentParts(atts) ==
    IF atts = <<>> THEN <<>>
    ELSE IF Head(atts).isfile
         THEN <<AttachmentPart(Head(atts))>> \o AttachmentParts(Tail(atts))
         ELSE AttachmentParts(Tail(atts))

\* line 353
TopType(html) ==
    IF StrTruthy(html) THEN "multipart/alternative" ELSE "multipart/mixed"

\* lines 354-360
Headers(m) ==
    <<<<"To", m.to>>, <<"Subject", m.subject>>>>
    \o (IF StrTruthy(m.cc) THEN <<<<"Cc", m.cc>>>> ELSE <<>>)
    \o (IF StrTruthy(m.bcc) THEN <<<<"Bcc", m.bcc>>>> ELSE <<>>)

\* lines 353-386
BuildMessage(m) ==
    [headers |-> Headers(m),
     root |-> Part(TopType(m.html_body), "", "",
                   <<PlainPart>>
                   \o (IF StrTruthy(m.html_body) THEN <<HtmlPart>> ELSE <<>>)
                   \o AttachmentParts(m.attachments))]

\* line 379: open(file_path, 'rb') raises on a file that cannot be read
OpenRaises(atts) ==
    \E i \in 1..Len(atts) : atts[i].isfile /\ ~atts[i].readable

ConnectorReady ==
    /\ now = 0
    /\ tokenFile = FileOf(Dump(Obj("creds", 1, 0, 1)))
    /\ credFile = "valid"
    /\ pc = "done"
    /\ creds = Obj("creds", 1, 0, 1)
    /\ clientConfig = NoConfig
    /\ outcome = "ok"
    /\ service = Obj("creds", 1, 0, 1)
    /\ loadStatus = "object"
    /\ loaded = Obj("creds", 1, 0, 1)
    /\ checkTime = 0
    /\ refreshState = "no"
    /\ flowState = "no"
    /\ flowEntered = FALSE
    /\ saved = FALSE
    /\ obtainNo = 1
    /\ nextTok = 2
    /\ prev = NoPrev

\* the arguments of the call
Messages ==
    {[to |-> "a@example.com", subject |-> "s", body |-> "b", cc |-> cc,
      bcc |-> bcc, html_body |-> html, attachments |-> atts] :
        cc \in OptionalAddrs, bcc \in OptionalAddrs, html \in HtmlBodies,
        atts \in SeqsUpTo(Paths, MaxAttachments)}

InitSend ==
    /\ ConnectorReady
    /\ RaceIdle
    /\ FacadeIdle
    /\ DecodeIdle
    /\ msg \in Messages
    /\ mime = NoMime
    /\ sendResult = "none"
    /\ sendCalls = 0

\* send_message, lines 351-399
SendMessage ==
    /\ outcome = "ok"
    /\ sendResult = "none"
    /\ op = NoOp
    /\ IF OpenRaises(msg.attachments)
       THEN /\ mime' = NoMime
            /\ sendResult' = "encode_error"
            /\ sendCalls' = 0
       ELSE /\ mime' = BuildMessage(msg)
            /\ sendResult' \in {"sent", "http_error"}
            /\ sendCalls' = 1
    /\ UNCHANGED <<msg, authVars, raceVars, facadeVars, decodeVars>>

NextSend == SendMessage

SpecSend == InitSend /\ [][NextSend]_vars

\* the message was built from one or more attachments, all of them readable
\* files
BuiltWithAttachments ==
    /\ sendResult \in {"sent", "http_error"}
    /\ Len(msg.attachments) > 0
    /\ \A i \in 1..Len(msg.attachments) :
          msg.attachments[i].isfile /\ msg.attachments[i].readable

\* the body the claim asks for: the alternative group of plain and html, or
\* the plain part alone
BodyPart(html) ==
    IF StrTruthy(html)
    THEN Part("multipart/alternative", "", "", <<PlainPart, HtmlPart>>)
    ELSE PlainPart

\* C10: a message with attachments is a 'mixed' group whose children are
\* the body (an 'alternative' group when html_body is set) and then the
\* attachments; no attachment sits in an 'alternative' group.
C10_AttachmentsUnderMixed ==
    BuiltWithAttachments
    => /\ mime.root.ctype = "multipart/mixed"
       /\ mime.root.parts =
             <<BodyPart(msg.html_body)>> \o AttachmentParts(msg.attachments)

\* C11: without html_body and without attachments the encoded message is
\* a single text/plain part, not a multipart container around one part.
C11_PlainIsSinglePart ==
    (sendResult \in {"sent", "http_error"} /\ ~StrTruthy(msg.html_body)
        /\ msg.attachments = <<>>)
    => mime.root = PlainPart

\* C12: an attachment path that is not a readable file makes the call fail
\* with an encoding error before anything is sent; no attachment is left
\* out of a message that is sent.
C12_UnreadableAttachmentFails ==
    (sendResult # "none"
        /\ \E i \in 1..Len(msg.attachments) :
              ~(msg.attachments[i].isfile /\ msg.attachments[i].readable))
    => (sendResult = "encode_error" /\ sendCalls = 0)

\* ------------------------------------------------ strings of header values
\* A string is the sequence of its characters (or of larger pieces where
\* the code never looks inside them).

\* str.startswith
StartsWith(s, p) == Len(s) >= Len(p) /\ SubSeq(s, 1, Len(p)) = p

\* s.split(ch)[-1]: what follows the last ch, the whole string without ch
RECURSIVE AfterLast(_, _)
AfterLast(s, ch) ==
    IF \E i \in 1..Len(s) : s[i] = ch
    THEN AfterLast(SubSeq(s, (CHOOSE i \in 1..Len(s) : s[i] = ch) + 1, Len(s)),
                   ch)
    ELSE s

\* s.split(ch)[0]: what precedes the first ch, the whole string without ch
BeforeFirst(s, ch) ==
    IF \E i \in 1..Len(s) : s[i] = ch
    THEN SubSeq(s, 1, (CHOOSE i \in 1..Len(s) :
                          s[i] = ch /\ \A j \in 1..(i - 1) : s[j] # ch) - 1)
    ELSE s

\* the 29 characters str.strip() removes (those str.isspace() accepts);
\* a character without a printable form is written as a named piece, by
\* its Unicode abbreviation or by its code point
Whitespace ==
    {" ", "\t", "\n", "\r", "\f"}
    \cup {"<TAB>", "<LF>", "<VT>", "<FF>", "<CR>",
          "<FS>", "<GS>", "<RS>", "<US>", "<SP>", "<NEL>", "<NBSP>",
          "<OGSP>", "<NQSP>", "<MQSP>", "<ENSP>", "<EMSP>", "<3/MSP>",
          "<4/MSP>", "<6/MSP>", "<FSP>", "<PSP>", "<THSP>", "<HSP>",
          "<LSEP>", "<PSEP>", "<NNBSP>", "<MMSP>", "<IDSP>"}
    \cup {"<U+0009>", "<U+000A>", "<U+000B>", "<U+000C>", "<U+000D>",
          "<U+001C>", "<U+001D>", "<U+001E>", "<U+001F>", "<U+0020>",
          "<U+0085>", "<U+00A0>", "<U+1680>", "<U+2000>", "<U+2001>",
          "<U+2002>", "<U+2003>", "<U+2004>", "<U+2005>", "<U+2006>",
          "<U+2007>", "<U+2008>", "<U+2009>", "<U+200A>", "<U+2028>",
          "<U+2029>", "<U+202F>", "<U+205F>", "<U+3000>"}

\* str.strip
RECURSIVE Strip(_)
Strip(s) ==
    IF s = <<>> THEN s
    ELSE IF Head(s) \in Whitespace THEN Strip(Tail(s))
    ELSE IF s[Len(s)] \in Whitespace THEN Strip(SubSeq(s, 1, Len(s) - 1))
    ELSE s

RePrefix == <<"R", "e", ":">>
FwdPrefix == <<"F", "w", "d", ":">>

\* -------------------------------------------------------- reply_to_message
\* line 475: the dict built from the header list, read with .get(name, '')
RECURSIVE HeaderGet(_, _)
HeaderGet(hs, name) ==
    IF hs = <<>> THEN <<>>
    ELSE IF hs[Len(hs)].name = name THEN hs[Len(hs)].value
    ELSE HeaderGet(SubSeq(hs, 1, Len(hs) - 1), name)

\* lines 476-478
ReplySubject(subject) ==
    IF ~StartsWith(subject, RePrefix)
    THEN RePrefix \o <<" ">> \o subject
    ELSE subject

\* line 480
ReplyAddress(from) == BeforeFirst(AfterLast(from, "<"), ">")

\* lines 482-487
ReplyReferences(references, message_id) ==
    IF message_id # <<>>
    THEN IF references # <<>>
         THEN references \o <<" ">> \o message_id
         ELSE message_id
    ELSE references

\* lines 475-499: the message reply_to_message builds
BuildReply(o, html) ==
    [to |-> ReplyAddress(HeaderGet(o.headers, "From")),
     subject |-> ReplySubject(HeaderGet(o.headers, "Subject")),
     in_reply_to |-> HeaderGet(o.headers, "Message-ID"),
     references |-> ReplyReferences(HeaderGet(o.headers, "References"),
                                    HeaderGet(o.headers, "Message-ID")),
     ctype |-> TopType(html),
     parts |-> <<PlainPart>>
               \o (IF StrTruthy(html) THEN <<HtmlPart>> ELSE <<>>)]

\* lines 424-443: the message forward_message builds
BuildForward(o, to) ==
    [to |-> to,
     subject |-> IF ~StartsWith(Strip(HeaderGet(o.headers, "Subject")),
                                FwdPrefix)
                 THEN FwdPrefix \o <<" ">>
                      \o Strip(HeaderGet(o.headers, "Subject"))
                 ELSE Strip(HeaderGet(o.headers, "Subject")),
     in_reply_to |-> <<>>,
     references |-> <<>>,
     ctype |-> "multipart/mixed",
     parts |-> <<PlainPart>> \o (IF o.hasBody THEN <<PlainPart>> ELSE <<>>)]

\* ------------------------------------------------- what the remote returns
MaxListing == 2

Header(n, v) == [name |-> n, value |-> v]

SubjectValues ==
    { <<>>, <<"X">>, <<"R", "e", ":", " ", "X">>, <<"R", "e", ":", "X">>,
      <<"R", "E", ":", " ", "X">>, <<"a", ":", " ", "b">> }

FromValues ==
    { <<>>, <<"a@x">>, <<"A", " ", "<", "a@x", ">">>,
      <<"A", " ", "<", "a@x", ">", ",", " ", "B", " ", "<", "b@y", ">">> }

MessageIdValues == { <<>>, <<"<c>">> }

ReferencesValues == { <<>>, <<"<a>", " ", "<b>">> }

OptionalHeader(names, values) ==
    {<<>>} \cup {<<Header(n, v)>> : n \in names, v \in values}

\* messages().get(format='full'): payload.headers as the sender wrote them
Originals ==
    { [payload |-> "present", decodable |-> TRUE, hasBody |-> TRUE,
       headers |-> hs \o hf \o hm \o hr] :
        hs \in OptionalHeader({"Subject", "subject"}, SubjectValues),
        hf \in OptionalHeader({"From", "FROM"}, FromValues),
        hm \in OptionalHeader({"Message-ID", "Message-Id"}, MessageIdValues),
        hr \in OptionalHeader({"References", "references"}, ReferencesValues) }
    \cup {NoOriginal}

\* messages().get(format='raw'): the header lines split at the first colon
RawOriginals ==
    { [payload |-> "present", decodable |-> d, hasBody |-> b, headers |-> hs] :
        d \in BOOLEAN, b \in BOOLEAN,
        hs \in {<<>>} \cup
               {<<Header(n, <<" ">> \o v)>> :
                   n \in {"Subject", "SUBJECT"},
                   v \in SubjectValues
                         \cup {<<"F", "w", "d", ":", " ", "X">>,
                               <<"X", "<CR>">>, <<"<TAB>", "X">>,
                               <<"<IDSP>", "X", "<US>">>}} }

MessageIds == {"m1", "m2"}

\* ------------------------------------------------------------ remote calls
Call(api, id, fmt) == [api |-> api, id |-> id, format |-> fmt, ok |-> TRUE]

\* variant: a failed call is issued a second time
RECURSIVE ExecuteRetrying(_, _)
ExecuteRetrying(plan, oks) ==
    IF plan = <<>> THEN <<>>
    ELSE IF Head(oks)
         THEN <<Head(plan)>> \o ExecuteRetrying(Tail(plan), Tail(oks))
         ELSE <<[Head(plan) EXCEPT !.ok = FALSE],
                [Head(plan) EXCEPT !.ok = FALSE]>>

\* the .execute() calls of one operation, in program order: an HttpError
\* leaves the method through `except HttpError: ... raise`
RECURSIVE Execute(_, _)
Execute(plan, oks) ==
    IF plan = <<>> THEN <<>>
    ELSE IF Head(oks)
         THEN <<Head(plan)>> \o Execute(Tail(plan), Tail(oks))
         ELSE <<[Head(plan) EXCEPT !.ok = FALSE]>>

AllOk(log) == \A i \in 1..Len(log) : log[i].ok

\* variant: every listed message is fetched at full fidelity
RECURSIVE FetchPlanAlwaysFull(_, _)
FetchPlanAlwaysFull(ids, include_body) ==
    IF ids = <<>> THEN <<>>
    ELSE <<Call("get", Head(ids), "full")>>
         \o FetchPlanAlwaysFull(Tail(ids), include_body)

\* lines 275-282: one get per listed id, at the requested fidelity
RECURSIVE FetchPlan(_, _)
FetchPlan(ids, include_body) ==
    IF ids = <<>> THEN <<>>
    ELSE <<Call("get", Head(ids), IF include_body THEN "full" ELSE "metadata")>>
         \o FetchPlan(Tail(ids), include_body)

\* variant: reply and forward send whether or not the payload was built
PlanSendsUnbuilt(o, ids, built) ==
    IF o.name = "profile" THEN <<Call("getProfile", "", "")>>
    ELSE IF o.name = "get" THEN <<Call("get", o.id, o.format)>>
    ELSE IF o.name = "list"
         THEN <<Call("list", "", "")>> \o FetchPlan(ids, o.include_body)
    ELSE IF o.name \in {"reply", "forward"}
         THEN <<Call("get", o.id, o.format), Call("send", "", "")>>
    ELSE <<Call(o.name, o.id, "")>>

\* the remote calls an operation makes when none fails and the payload can
\* be built
Plan(o, ids, built) ==
    IF o.name = "profile" THEN <<Call("getProfile", "", "")>>
    ELSE IF o.name = "get" THEN <<Call("get", o.id, o.format)>>
    ELSE IF o.name = "list"
         THEN <<Call("list", "", "")>> \o FetchPlan(ids, o.include_body)
    ELSE IF o.name \in {"reply", "forward"}
         THEN <<Call("get", o.id, o.format)>>
              \o (IF built THEN <<Call("send", "", "")>> ELSE <<>>)
    ELSE <<Call(o.name, o.id, "")>>

Op(n, id, fmt) == [NoOp EXCEPT !.name = n, !.id = id, !.format = fmt]

\* what a finished operation hands to its caller
Fetched(log) == [i \in 1..Len(log) |-> [id |-> log[i].id, format |-> log[i].format]]

\* the connector is built and no operation was called yet
Ready ==
    /\ outcome = "ok"
    /\ op = NoOp
    /\ sendResult = "none"

\* an operation whose payload needs no building
Run(o, ids, value) ==
    /\ op' = o
    /\ \E oks \in [1..Len(Plan(o, ids, TRUE)) -> BOOLEAN] :
         LET log == Execute(Plan(o, ids, TRUE), oks)
         IN /\ calls' = log
            /\ opResult' = IF AllOk(log) THEN "returned" ELSE "http_error"
            /\ returned' = IF AllOk(log)
                           THEN (IF value = "last" THEN Fetched(<<log[Len(log)]>>)
                                 ELSE IF value = "fetched"
                                 THEN Fetched(Tail(log))
                                 ELSE <<>>)
                           ELSE <<>>
            /\ listing' = IF o.name = "list" /\ log[1].ok THEN ids ELSE <<>>
    /\ UNCHANGED <<orig, reply, authVars, raceVars, sendVars, decodeVars>>

\* get_profile, lines 246-250
GetProfile ==
    /\ Ready
    /\ Run(Op("profile", "", ""), <<>>, "last")

\* get_messages, lines 266-287
GetMessages ==
    /\ Ready
    /\ \E ids \in SeqsUpTo(MessageIds, MaxListing), b \in BOOLEAN :
         Run([Op("list", "", "") EXCEPT !.include_body = b], ids, "fetched")

\* get_message, lines 300-304
GetMessage ==
    /\ Ready
    /\ \E id \in MessageIds, f \in {"full", "minimal", "raw", "metadata"} :
         Run(Op("get", id, f), <<>>, "last")

\* trash_message, lines 524-528
TrashMessage ==
    /\ Ready
    /\ \E id \in MessageIds : Run(Op("trash", id, ""), <<>>, "last")

\* untrash_message, lines 540-544
UntrashMessage ==
    /\ Ready
    /\ \E id \in MessageIds : Run(Op("untrash", id, ""), <<>>, "last")

\* delete_message, lines 553-557
DeleteMessage ==
    /\ Ready
    /\ \E id \in MessageIds : Run(Op("delete", id, ""), <<>>, "none")

\* reply_to_message and forward_message: get, build, send
RunBuilt(o, original, buildable, built) ==
    /\ op' = o
    /\ \E oks \in [1..2 -> BOOLEAN] :
         LET log == Execute(Plan(o, <<>>, buildable), oks)
         IN /\ calls' = log
            /\ orig' = IF log[1].ok THEN original ELSE NoOriginal
            /\ reply' = IF log[1].ok /\ buildable THEN built ELSE NoReply
            /\ opResult' = IF ~AllOk(log) THEN "http_error"
                           ELSE IF ~buildable THEN "error"
                           ELSE "returned"
            /\ returned' = IF AllOk(log) /\ buildable
                           THEN Fetched(<<log[Len(log)]>>)
                           ELSE <<>>
    /\ UNCHANGED <<listing, authVars, raceVars, sendVars, decodeVars>>

\* reply_to_message, lines 470-512
ReplyToMessage ==
    /\ Ready
    /\ \E html \in {"None", "<h1>Hello</h1>"}, o \in Originals :
         RunBuilt([Op("reply", "m1", "full") EXCEPT !.html_body = html], o,
                  o.payload = "present", BuildReply(o, html))

\* forward_message, lines 413-456
ForwardMessage ==
    /\ Ready
    /\ \E o \in RawOriginals :
         RunBuilt([Op("forward", "m1", "raw") EXCEPT !.to = <<"t@x">>], o,
                  o.decodable, BuildForward(o, <<"t@x">>))

FacadeMessages ==
    {m \in Messages : m.attachments = <<>> /\ m.cc = "None" /\ m.bcc = "None"
                       /\ m.html_body # ""}

InitFacade ==
    /\ ConnectorReady
    /\ RaceIdle
    /\ FacadeIdle
    /\ DecodeIdle
    /\ msg \in FacadeMessages
    /\ mime = NoMime
    /\ sendResult = "none"
    /\ sendCalls = 0

NextFacade ==
    \/ GetProfile
    \/ GetMessages
    \/ GetMessage
    \/ SendMessage
    \/ ForwardMessage
    \/ ReplyToMessage
    \/ TrashMessage
    \/ UntrashMessage
    \/ DeleteMessage

SpecFacade == InitFacade /\ [][NextFacade]_vars

\* ------------------------------------------------ claims, reply / forward
\* the canonical spelling of a header name (names compare without case)
Canonical(n) ==
    IF n \in {"Subject", "subject", "SUBJECT"} THEN "Subject"
    ELSE IF n \in {"From", "FROM"} THEN "From"
    ELSE IF n \in {"Message-ID", "Message-Id"} THEN "Message-ID"
    ELSE IF n \in {"References", "references"} THEN "References"
    ELSE n

\* the same message with every header name in its canonical spelling
Canonicalized(o) ==
    [o EXCEPT !.headers =
        [i \in 1..Len(o.headers) |->
            Header(Canonical(o.headers[i].name), o.headers[i].value)]]

\* the value of a header, whatever the case of its name; <<>> without one
ValueOf(o, name) == HeaderGet(Canonicalized(o).headers, name)

\* the original was fetched and the reply / the forward was built from it
ReplyBuilt ==
    op.name = "reply" /\ calls[1].ok /\ orig.payload = "present"

ForwardBuilt ==
    op.name = "forward" /\ calls[1].ok /\ orig.decodable

\* the address inside the first <...> of a From value, the value itself
\* when it has no brackets
FirstAddress(from) ==
    IF \E i \in 1..Len(from) : from[i] = "<"
    THEN BeforeFirst(SubSeq(from, Len(BeforeFirst(from, "<")) + 2, Len(from)),
                     ">")
    ELSE from

\* C13: a reply to an original without a Message-ID header has an empty
\* In-Reply-To and an empty References, whatever the original's References.
C13_NoMessageIdNoThreading ==
    (ReplyBuilt
        /\ \A i \in 1..Len(orig.headers) :
              Canonical(orig.headers[i].name) # "Message-ID")
    => (reply.in_reply_to = <<>> /\ reply.references = <<>>)

\* C14: the Subject, From, Message-ID and References that reply and forward
\* use are those of the original whatever the letter case of the header
\* names, and building never raises because of casing or colons.
C14_HeaderNamesIgnoreCase ==
    /\ ReplyBuilt
       => (opResult # "error"
           /\ reply = BuildReply(Canonicalized(orig), op.html_body))
    /\ ForwardBuilt
       => (opResult # "error"
           /\ reply = BuildForward(Canonicalized(orig), op.to))

\* C15: the reply goes to the bare address of the original From header,
\* the first one when the header holds several <...> addresses.
C15_ReplyToFirstAddress ==
    ReplyBuilt => reply.to = FirstAddress(ValueOf(orig, "From"))

\* C18: a reply to an original with Message-ID m has In-Reply-To m, and
\* References is the original References, a space, and m, or m alone when
\* the original has no References.
C18_ReferencesAccumulate ==
    (ReplyBuilt /\ ValueOf(orig, "Message-ID") # <<>>)
    => /\ reply.in_reply_to = ValueOf(orig, "Message-ID")
       /\ reply.references =
             IF ValueOf(orig, "References") # <<>>
             THEN ValueOf(orig, "References") \o <<" ">>
                  \o ValueOf(orig, "Message-ID")
             ELSE ValueOf(orig, "Message-ID")

\* C19: the reply subject is the original subject when that starts with
\* 'Re:' and 'Re: ' followed by it otherwise, and the rule applied to the
\* reply subject returns it unchanged.
C19_ReplySubjectIdempotent ==
    ReplyBuilt
    => /\ reply.subject =
             IF StartsWith(ValueOf(orig, "Subject"), RePrefix)
             THEN ValueOf(orig, "Subject")
             ELSE RePrefix \o <<" ">> \o ValueOf(orig, "Subject")
       /\ ReplySubject(reply.subject) = reply.subject

\* ------------------------------------------------------- claims, facade
\* C20: a failed remote call ends the operation with the error: it is not
\* issued again, no remote call follows it, nothing is returned, and every
\* call of an operation is issued once, in the order of its steps.
C20_FailureSurfacedNoRetry ==
    /\ op.name # "none"
       => /\ Len(calls) >= 1
          /\ Len(calls) <= Len(Plan(op, listing, TRUE))
          /\ \A i \in 1..Len(calls) :
                /\ [calls[i] EXCEPT !.ok = TRUE] = Plan(op, listing, TRUE)[i]
                /\ (i < Len(calls) => calls[i].ok)
          /\ (~AllOk(calls) => (opResult = "http_error" /\ returned = <<>>))
          /\ (opResult = "returned" => AllOk(calls))
    /\ sendCalls <= 1
    /\ (sendResult = "http_error" => (sendCalls = 1 /\ op = NoOp))

C20_Witness ==
    /\ op.name = "list"
    /\ Len(listing) = 2
    /\ Len(calls) = 2
    /\ ~calls[2].ok
    /\ opResult = "http_error"
    /\ returned = <<>>

\* C22: a get_messages that received k ids from its one list call and
\* returned has made exactly k get calls after it, one per id in listing
\* order, at 'full' fidelity with include_body and 'metadata' without, and
\* returns the k fetched messages in that order.
C22_ListFetchesEachId ==
    (op.name = "list" /\ opResult = "returned")
    => /\ Len(calls) = 1 + Len(listing)
       /\ calls[1] = Call("list", "", "")
       /\ \A i \in 1..Len(listing) :
             calls[i + 1] =
                 Call("get", listing[i],
                      IF op.include_body THEN "full" ELSE "metadata")
       /\ returned =
             [i \in 1..Len(listing) |->
                 [id |-> listing[i],
                  format |-> IF op.include_body THEN "full" ELSE "metadata"]]

C22_Witness ==
    /\ op.name = "list"
    /\ ~op.include_body
    /\ opResult = "returned"
    /\ listing = <<"m2", "m1">>
    /\ Len(calls) = 3
    /\ returned = <<[id |-> "m2", format |-> "metadata"],
                    [id |-> "m1", format |-> "metadata"]>>

\* C23: reply and forward fetch the original first; a send call is made
\* only as the second call, after that fetch succeeded and the payload was
\* built from the fetched original; a failed fetch or a build that raises
\* ends the operation with no send call.
C23_SendOnlyAfterFetchAndBuild ==
    op.name \in {"reply", "forward"}
    => /\ Len(calls) >= 1
       /\ calls[1].api = "get"
       /\ calls[1].id = op.id
       /\ \A i \in 1..Len(calls) :
             calls[i].api = "send"
             => /\ i = 2
                /\ calls[1].ok
                /\ reply # NoReply
                /\ (op.name = "reply"
                      => (orig.payload = "present"
                          /\ reply = BuildReply(orig, op.html_body)))
                /\ (op.name = "forward"
                      => (orig.decodable /\ reply = BuildForward(orig, op.to)))
       /\ ((~calls[1].ok \/ opResult = "error")
             => (Len(calls) = 1 /\ returned = <<>>))

C23_Witness ==
    /\ op.name = "forward"
    /\ calls[1].ok
    /\ ~orig.decodable
    /\ opResult = "error"
    /\ Len(calls) = 1

\* -------------------------------------------------------- get_message_body
MaxParts == 3

\* a part of the payload: its declared type ("absent" without a mimeType
\* key), its body ("absent" without a body key, "nodata" without data in
\* it), the text the data stands for, whether its bytes are valid UTF-8,
\* and its own sub-parts
BodyPartOf(t, b, x, u, ps) ==
    [mimeType |-> t, body |-> b, text |-> x, utf8 |-> u, parts |-> ps]

Foo == <<"f", "o", "o">>
Bar == <<"b", "a", "r">>

PartKinds ==
    { BodyPartOf("text/plain", "data", Foo, TRUE, <<>>),
      BodyPartOf("text/plain", "data", Bar, TRUE, <<>>),
      BodyPartOf("text/plain", "data", <<"c", "a", "f", "E9">>, FALSE, <<>>),
      BodyPartOf("text/plain", "nodata", <<>>, TRUE, <<>>),
      BodyPartOf("text/plain", "absent", <<>>, TRUE, <<>>),
      BodyPartOf("text/html", "data", <<"<p>">>, TRUE, <<>>),
      BodyPartOf("absent", "data", Foo, TRUE, <<>>),
      BodyPartOf("multipart/alternative", "nodata", <<>>, TRUE,
                 <<BodyPartOf("text/plain", "data", Foo, TRUE, <<>>),
                   BodyPartOf("text/html", "data", <<"<p>">>, TRUE, <<>>)>>) }

InboundMessages ==
    {NoInbound}
    \cup {[payload |-> "present", hasParts |-> TRUE, parts |-> ps,
           mimeType |-> "multipart/mixed", body |-> "nodata", text |-> <<>>,
           utf8 |-> TRUE] : ps \in SeqsUpTo(PartKinds, MaxParts)}
    \cup {[payload |-> "present", hasParts |-> FALSE, parts |-> <<>>,
           mimeType |-> t, body |-> b, text |-> IF b = "data" THEN Foo ELSE <<>>,
           utf8 |-> u] :
             t \in {"text/plain", "text/html"},
             b \in {"absent", "nodata", "data"}, u \in BOOLEAN}

\* '\n'.join(parts), line 331
RECURSIVE Join(_)
Join(texts) ==
    IF texts = <<>> THEN <<>>
    ELSE IF Len(texts) = 1 THEN Head(texts)
    ELSE Head(texts) \o <<"\n">> \o Join(Tail(texts))

Raised == [raised |-> TRUE, texts |-> <<>>]

\* lines 321-325: part['mimeType'] and part['body'] raise KeyError on a
\* missing key, .decode('utf-8') raises on other bytes
RECURSIVE DecodeParts(_)
DecodeParts(ps) ==
    IF ps = <<>> THEN [raised |-> FALSE, texts |-> <<>>]
    ELSE IF Head(ps).mimeType = "absent" THEN Raised
    ELSE IF Head(ps).mimeType = "text/plain"
         THEN IF Head(ps).body = "absent" THEN Raised
              ELSE IF Head(ps).body = "data"
                   THEN IF ~Head(ps).utf8 \/ DecodeParts(Tail(ps)).raised
                        THEN Raised
                        ELSE [raised |-> FALSE,
                              texts |-> <<Head(ps).text>>
                                        \o DecodeParts(Tail(ps)).texts]
              ELSE DecodeParts(Tail(ps))
    ELSE DecodeParts(Tail(ps))

\* lines 316-331
MessageBody(m) ==
    IF m.payload = "absent" THEN [raised |-> FALSE, texts |-> <<>>]
    ELSE IF m.hasParts THEN DecodeParts(m.parts)
    ELSE IF m.body = "data"
         THEN IF m.utf8 THEN [raised |-> FALSE, texts |-> <<m.text>>]
              ELSE Raised
    ELSE [raised |-> FALSE, texts |-> <<>>]

InitDecode ==
    /\ ConnectorReady
    /\ RaceIdle
    /\ SendIdle
    /\ FacadeIdle
    /\ inbound \in InboundMessages
    /\ bodyStatus = "none"
    /\ bodyText = <<>>

\* get_message_body, lines 306-331
GetMessageBody ==
    /\ bodyStatus = "none"
    /\ bodyStatus' = IF MessageBody(inbound).raised THEN "raised"
                     ELSE "returned"
    /\ bodyText' = Join(MessageBody(inbound).texts)
    /\ UNCHANGED <<inbound, authVars, raceVars, sendVars, facadeVars>>

NextDecode == GetMessageBody

SpecDecode == InitDecode /\ [][NextDecode]_vars

\* text/plain content exists somewhere in the structure
IsPlainText(p) == p.mimeType = "text/plain" /\ p.body = "data"

HasTextPlain(m) ==
    /\ m.payload = "present"
    /\ IF m.hasParts
       THEN \E i \in 1..Len(m.parts) :
               \/ IsPlainText(m.parts[i])
               \/ \E j \in 1..Len(m.parts[i].parts) :
                     IsPlainText(m.parts[i].parts[j])
       ELSE IsPlainText(m)

\* the texts of the sub-parts declared text/plain, in order
RECURSIVE PlainTexts(_)
PlainTexts(ps) ==
    IF ps = <<>> THEN <<>>
    ELSE (IF IsPlainText(Head(ps)) THEN <<Head(ps).text>> ELSE <<>>)
         \o PlainTexts(Tail(ps))

\* C16: get_message_body never raises, whatever the message structure, and returns the
\* empty string exactly when the structure holds no text/plain content.
C16_DecodeNeverRaises ==
    bodyStatus # "none"
    => /\ bodyStatus = "returned"
       /\ (bodyText = <<>>) <=> ~HasTextPlain(inbound)

\* C17: for a message with sub-parts the result is the contents of the
\* parts declared text/plain, in order, joined by one newline; parts of
\* other types add nothing.
C17_PlainPartsJoined ==
    (bodyStatus # "none" /\ inbound.payload = "present" /\ inbound.hasParts)
    => /\ bodyStatus = "returned"
       /\ bodyText = Join(PlainTexts(inbound.parts))

\* ------------------------------------------------- one run of the program
\* __main__, lines 642-720: one GmailConnector is constructed, a failed
\* construction exits the process, and one command is dispatched to the
\* connector's method.

\* lines 642-651: the one construction of the run
MainConstruct ==
    /\ obtainNo = 0
    /\ Construct

\* lines 685-691: reply-to-message; the run draws the fetched original
\* from the originals without headers
MainReplyToMessage ==
    /\ Ready
    /\ \E html \in {"None", "<h1>Hello</h1>"},
          o \in {x \in Originals : x.headers = <<>>} :
         RunBuilt([Op("reply", "m1", "full") EXCEPT !.html_body = html], o,
                  o.payload = "present", BuildReply(o, html))

\* lines 678-684: forward-message
MainForwardMessage ==
    /\ Ready
    /\ \E o \in {x \in RawOriginals : x.headers = <<>>} :
         RunBuilt([Op("forward", "m1", "raw") EXCEPT !.to = <<"t@x">>], o,
                  o.decodable, BuildForward(o, <<"t@x">>))

InitRun ==
    /\ InitAuth
    /\ RaceIdle
    /\ FacadeIdle
    /\ DecodeIdle
    /\ msg \in FacadeMessages
    /\ mime = NoMime
    /\ sendResult = "none"
    /\ sendCalls = 0

NextRun ==
    \/ MainConstruct
    \/ LoadToken
    \/ CheckCreds
    \/ Refresh
    \/ LoadClientConfig
    \/ StartFlow
    \/ ConsentGranted
    \/ FlowFails
    \/ SaveToken
    \/ Build
    \/ Tick
    \/ GetProfile
    \/ GetMessages
    \/ GetMessage
    \/ SendMessage
    \/ MainForwardMessage
    \/ MainReplyToMessage
    \/ TrashMessage
    \/ UntrashMessage
    \/ DeleteMessage

SpecRun == InitRun /\ [][NextRun]_vars

\* an operation of the connector has invoked the transport
TransportInvoked == calls # <<>> \/ sendCalls > 0

\* C21: a transport call of an operation comes after an obtain of the same
\* run that succeeded with a credential that was valid; after a failed
\* obtain the run makes no transport call.
C21_TransportAfterValidObtain ==
    /\ TransportInvoked
       => /\ pc = "done"
          /\ outcome = "ok"
          /\ HasCredentialApi(service)
          /\ Valid(service, checkTime)
    /\ (outcome \notin {"none", "ok"}) => ~TransportInvoked

====
